---- MODULE Spec2Model ----
(***************************************************************************)
(* Models of the teaching notebooks of EffectivePython.  Every notebook is *)
(* a program of its own (no state is shared between notebooks), so every   *)
(* notebook has its own variables, its own initial predicate and its own   *)
(* specification; the variables of the other notebooks stay at their       *)
(* initial values.                                                         *)
(***************************************************************************)
EXTENDS Integers, Sequences, FiniteSets, TLC

VARIABLES
    \* v30: @property instead of refactoring attributes
    now,        \* datetime.now(), in seconds since the buckets were built
    plain,      \* the Example 1 Bucket: [reset_time, quota]
    prop,       \* the Example 7 Bucket: [reset_time, max_quota, quota_consumed]
    calls,      \* number of fill / deduct calls made so far
    onePeriod,  \* no call so far has seen the period expired
    last,       \* the last call: what it was and what it returned on each Bucket
    \* v13: try / except / else / finally
    djFile,     \* the file at path, as it is on disk
    djPc,       \* where divide_json is
    djHandle,   \* the handle divide_json opened: "none", "open" or "closed"
    djCloses,   \* how many times handle.close() has run
    djOp,       \* op, the parsed data (the empty dict until json.loads returns)
    djValue,    \* value, the quotient, as a fraction <<n, d>> in lowest terms
    djPending,  \* the return or the exception a block has left for finally
    djOutcome,  \* what the caller of divide_json got
    \* v43: contextlib and with statements
    lgLevel,    \* the root logger's level
    lgStack,    \* the debug_logging blocks that are active, innermost last
    lgExc,      \* "none", "raised" (in a block's body) or "unwinding"
    lgOut,      \* what the last my_function() call printed
    lgEnded,    \* the with block that ended last
    \* v51: a root exception to insulate callers from APIs
    wtCaller,   \* the try statement that runs: "Example 3", 4, 5 or 7
    wtArgs,     \* the arguments handed to my_module.determine_weight
    wtPc,       \* "try", "except" or "done"
    wtOld,      \* the caller's run with the Example 3 my_module
    wtNew,      \* the caller's run with my_module as extended by Example 6
    \* unnamed/part_002: pickle made reliable with copyreg
    pkCell,       \* how many of the notebook's definition cells have run
    pkNames,      \* the global names: what each is bound to, or "unbound"
    pkTable,      \* copyreg.dispatch_table: class object -> reducing function
    pkState,      \* state, the live game state object: [class, dict]
    pkSerialized, \* serialized, the bytes pickle.dumps returned last
    pkAfter,      \* state_after, what the pickle.loads that just ran gave
    \* unnamed/part_001: None and docstrings for dynamic default arguments
    dcVersion,    \* the decode that is defined: "Wrong Case" or "Solution"
    dcDefaults,   \* decode.__defaults__: the default's object id, 0 for None
    dcHeap,       \* the dict objects, by object id
    dcResults,    \* what the calls of decode returned, in order
    dcLastStore,  \* the last result[key] = value: through which result
    \* v37: threads for blocking I/O, not for parallelism
    thMode,     \* "serial" (Example 2) or "threads" (Examples 4 and 5)
    thNumbers,  \* numbers
    thMain,     \* where the main thread is: [phase, k]
    thI,        \* per number: 0 before factorize starts, then its loop's i
    thFactors,  \* per number: the list being built from factorize
    thElapsed,  \* interpreter steps taken since start = time()
    thExecuting \* the threads that executed in the last step (0 is main)

bucketVars == <<now, plain, prop, calls, onePeriod, last>>
divideVars == <<djFile, djPc, djHandle, djCloses, djOp, djValue, djPending,
               djOutcome>>

loggingVars == <<lgLevel, lgStack, lgExc, lgOut, lgEnded>>

weightVars == <<wtCaller, wtArgs, wtPc, wtOld, wtNew>>

pickleVars == <<pkCell, pkNames, pkTable, pkState, pkSerialized, pkAfter>>

decodeVars == <<dcVersion, dcDefaults, dcHeap, dcResults, dcLastStore>>

threadVars == <<thMode, thNumbers, thMain, thI, thFactors, thElapsed,
                thExecuting>>

vars == <<bucketVars, divideVars, loggingVars, weightVars, pickleVars,
          decodeVars, threadVars>>

notBucket == <<divideVars, loggingVars, weightVars, pickleVars,
              decodeVars, threadVars>>
notDivide == <<bucketVars, loggingVars, weightVars, pickleVars,
              decodeVars, threadVars>>
notLogging == <<bucketVars, divideVars, weightVars, pickleVars,
              decodeVars, threadVars>>
notWeight == <<bucketVars, divideVars, loggingVars, pickleVars,
              decodeVars, threadVars>>
notPickle == <<bucketVars, divideVars, loggingVars, weightVars, decodeVars,
              threadVars>>
notDecode == <<bucketVars, divideVars, loggingVars, weightVars, pickleVars,
              threadVars>>
notThreads == <<bucketVars, divideVars, loggingVars, weightVars, pickleVars,
               decodeVars>>

(***************************************************************************)
(* v30_property_instead_of_Refactoring_Attributes                          *)
(***************************************************************************)

\* Bounds of the bucket model.
MaxAmount == 3
MaxCalls == 4
MaxTime == 3
\* The period handed to Bucket(period), in seconds.
Period == 2

Amounts == 0..MaxAmount

\* Example 1: Bucket.__init__, the quota is a plain attribute.
PlainBucket == [reset_time |-> 0, quota |-> 0]

\* Example 7: Bucket.__init__, the quota is split in two attributes.
PropBucket == [reset_time |-> 0, max_quota |-> 0, quota_consumed |-> 0]

\* Example 8: the quota property's getter.
QuotaGet(b) == b.max_quota - b.quota_consumed

\* Example 9: the quota property's setter.  The result is the bucket after the
\* assignment and whether an assert of the setter failed (the bucket is then
\* as it was: both asserts come before the branch's assignment).
QuotaSet(b, amount) ==
    LET delta == b.max_quota - amount IN
    IF amount = 0
    THEN [bucket |-> [b EXCEPT !.quota_consumed = 0, !.max_quota = 0],
          raised |-> FALSE]
    ELSE IF delta < 0
    THEN IF b.quota_consumed = 0
         THEN [bucket |-> [b EXCEPT !.max_quota = amount], raised |-> FALSE]
         ELSE [bucket |-> b, raised |-> TRUE]
    ELSE IF b.max_quota >= b.quota_consumed
         THEN [bucket |-> [b EXCEPT !.quota_consumed = @ + delta],
               raised |-> FALSE]
         ELSE [bucket |-> b, raised |-> TRUE]

\* now - bucket.reset_time > bucket.period_delta
Expired(b, t) == t - b.reset_time > Period

\* Example 2: fill on the plain Bucket.
FillPlain(b, t, amount) ==
    LET b1 == IF Expired(b, t)
              THEN [b EXCEPT !.quota = 0, !.reset_time = t]
              ELSE b
    IN  [bucket |-> [b1 EXCEPT !.quota = @ + amount], ret |-> "None"]

\* Example 3: deduct on the plain Bucket.
DeductPlain(b, t, amount) ==
    IF Expired(b, t) THEN [bucket |-> b, ret |-> "False"]
    ELSE IF b.quota - amount < 0 THEN [bucket |-> b, ret |-> "False"]
    ELSE [bucket |-> [b EXCEPT !.quota = @ - amount], ret |-> "True"]

\* Example 2: fill on the property Bucket; every bucket.quota = ... goes
\* through the setter, every read of bucket.quota through the getter.
FillProp(b, t, amount) ==
    LET b1 == IF Expired(b, t)
              THEN [QuotaSet(b, 0).bucket EXCEPT !.reset_time = t]
              ELSE b
        set == QuotaSet(b1, QuotaGet(b1) + amount)
    IN  [bucket |-> set.bucket,
         ret |-> IF set.raised THEN "AssertionError" ELSE "None"]

\* Example 3: deduct on the property Bucket.
DeductProp(b, t, amount) ==
    IF Expired(b, t) THEN [bucket |-> b, ret |-> "False"]
    ELSE IF QuotaGet(b) - amount < 0 THEN [bucket |-> b, ret |-> "False"]
    ELSE LET set == QuotaSet(b, QuotaGet(b) - amount)
         IN  [bucket |-> set.bucket,
              ret |-> IF set.raised THEN "AssertionError" ELSE "True"]

NoCall == [op |-> "none", amount |-> 0, retPlain |-> "None", retProp |-> "None",
           before |-> PropBucket]

BucketInit ==
    /\ now = 0
    /\ plain = PlainBucket
    /\ prop = PropBucket
    /\ calls = 0
    /\ onePeriod = TRUE
    /\ last = NoCall

\* Time passes between two calls.
Tick ==
    /\ now < MaxTime
    /\ now' = now + 1
    /\ UNCHANGED <<plain, prop, calls, onePeriod, last>>
    /\ UNCHANGED notBucket

\* fill(bucket, amount), the same call made on a Bucket of each kind.
Fill ==
    \E amount \in Amounts :
        /\ calls < MaxCalls
        /\ LET p == FillPlain(plain, now, amount)
               q == FillProp(prop, now, amount)
           IN  /\ plain' = p.bucket
               /\ prop' = q.bucket
               /\ last' = [op |-> "fill", amount |-> amount, retPlain |-> p.ret,
                           retProp |-> q.ret, before |-> prop]
        /\ onePeriod' = (onePeriod /\ ~Expired(plain, now) /\ ~Expired(prop, now))
        /\ calls' = calls + 1
        /\ UNCHANGED now
        /\ UNCHANGED notBucket

\* deduct(bucket, amount), the same call made on a Bucket of each kind.
Deduct ==
    \E amount \in Amounts :
        /\ calls < MaxCalls
        /\ LET p == DeductPlain(plain, now, amount)
               q == DeductProp(prop, now, amount)
           IN  /\ plain' = p.bucket
               /\ prop' = q.bucket
               /\ last' = [op |-> "deduct", amount |-> amount, retPlain |-> p.ret,
                           retProp |-> q.ret, before |-> prop]
        /\ onePeriod' = (onePeriod /\ ~Expired(plain, now) /\ ~Expired(prop, now))
        /\ calls' = calls + 1
        /\ UNCHANGED now
        /\ UNCHANGED notBucket

BucketNext == Tick \/ Fill \/ Deduct


\* C1: inside one period, after every fill / deduct call made on a fresh Bucket
\* of each kind, a deduct has returned the same boolean on both and
\* bucket.quota reads the same on both.
C1_DropInReplacement ==
    onePeriod =>
        /\ QuotaGet(prop) = plain.quota
        /\ last.retProp = last.retPlain

\* C2: inside one period, a deduct on the property Bucket that returns True
\* raises quota_consumed by exactly the amount and leaves max_quota alone (so
\* bucket.quota drops by the amount); one that returns False changes neither.
C2_DeductAccounting ==
    (onePeriod /\ last.op = "deduct") =>
        /\ last.retProp \in {"True", "False"}
        /\ last.retProp = "True" =>
               /\ prop.quota_consumed = last.before.quota_consumed + last.amount
               /\ prop.max_quota = last.before.max_quota
               /\ QuotaGet(prop) = QuotaGet(last.before) - last.amount
        /\ last.retProp = "False" =>
               /\ prop.quota_consumed = last.before.quota_consumed
               /\ prop.max_quota = last.before.max_quota

(***************************************************************************)
(* v13_take_advantage_of_each_block_in_try_except_else_finally             *)
(***************************************************************************)

\* Bound: the numerators and denominators a file may hold.
MaxNum == 3

EmptyDict == [k \in {} |-> 0]

\* The dicts a file may hold: numerator and denominator, each there or not.
InputDicts ==
    UNION {[D -> 0..MaxNum] : D \in SUBSET {"numerator", "denominator"}}

\* No file at path: open raises.
MissingFile == [exists |-> FALSE, kind |-> "none", op |-> EmptyDict]

\* The files divide_json may find at path: none, bytes that do not decode,
\* text that is not JSON, JSON that is no dict (a list), or a dict.
Files ==
    {MissingFile}
    \cup {[exists |-> TRUE, kind |-> k, op |-> EmptyDict] :
             k \in {"undecodable", "invalid", "list"}}
    \cup {[exists |-> TRUE, kind |-> "dict", op |-> d] : d \in InputDicts}

RECURSIVE Gcd(_, _)
Gcd(a, b) == IF b = 0 THEN a ELSE Gcd(b, a % b)

\* op['numerator'] / op['denominator'] for a denominator that is not 0.
Quotient(n, d) == <<n \div Gcd(n, d), d \div Gcd(n, d)>>

NoPending == [kind |-> "none", what |-> "none"]
Returns(what) == [kind |-> "return", what |-> what]
Raises(exc) == [kind |-> "raise", what |-> exc]

\* Where an exception raised in the try block goes: the except clause takes
\* ZeroDivisionError, every other exception goes to finally and on.
AfterTry(exc) == IF exc = "ZeroDivisionError" THEN "except" ELSE "finally"

DivideIdle ==
    /\ djFile = MissingFile
    /\ djPc = "call"
    /\ djHandle = "none"
    /\ djCloses = 0
    /\ djOp = EmptyDict
    /\ djValue = <<0, 1>>
    /\ djPending = NoPending
    /\ djOutcome = NoPending

DivideInit ==
    /\ djFile \in Files
    /\ djPc = "call"
    /\ djHandle = "none"
    /\ djCloses = 0
    /\ djOp = EmptyDict
    /\ djValue = <<0, 1>>
    /\ djPending = NoPending
    /\ djOutcome = NoPending

\* An exception raised at a statement of the try block.
RaiseInTry(exc) ==
    /\ djPending' = Raises(exc)
    /\ djPc' = AfterTry(exc)
    /\ UNCHANGED <<djFile, djHandle, djCloses, djOp, djValue, djOutcome>>

\* handle = open(path, 'r+'): before the try statement, so a failure leaves
\* divide_json with no handle and without running finally.
Open ==
    /\ djPc = "call"
    /\ IF djFile.exists
       THEN /\ djHandle' = "open"
            /\ djPc' = "read"
            /\ UNCHANGED djOutcome
       ELSE /\ djOutcome' = Raises("IOError")
            /\ djPc' = "done"
            /\ UNCHANGED djHandle
    /\ UNCHANGED <<djFile, djCloses, djOp, djValue, djPending>>
    /\ UNCHANGED notDivide

\* data = handle.read()
Read ==
    /\ djPc = "read"
    /\ IF djFile.kind = "undecodable"
       THEN RaiseInTry("UnicodeDecodeError")
       ELSE /\ djPc' = "loads"
            /\ UNCHANGED <<djFile, djHandle, djCloses, djOp, djValue, djPending,
                           djOutcome>>
    /\ UNCHANGED notDivide

\* op = json.loads(data)
Loads ==
    /\ djPc = "loads"
    /\ IF djFile.kind = "invalid"
       THEN RaiseInTry("ValueError")
       ELSE /\ djOp' = djFile.op
            /\ djPc' = "divide"
            /\ UNCHANGED <<djFile, djHandle, djCloses, djValue, djPending,
                           djOutcome>>
    /\ UNCHANGED notDivide

\* value = op['numerator'] / op['denominator']
Divide ==
    /\ djPc = "divide"
    /\ IF djFile.kind = "list"
       THEN RaiseInTry("TypeError")
       ELSE IF "numerator" \notin DOMAIN djOp \/ "denominator" \notin DOMAIN djOp
       THEN RaiseInTry("KeyError")
       ELSE IF djOp["denominator"] = 0
       THEN RaiseInTry("ZeroDivisionError")
       ELSE /\ djValue' = Quotient(djOp["numerator"], djOp["denominator"])
            /\ djPc' = "else"
            /\ UNCHANGED <<djFile, djHandle, djCloses, djOp, djPending,
                           djOutcome>>
    /\ UNCHANGED notDivide

\* except ZeroDivisionError: return UNDEFINED
Except ==
    /\ djPc = "except"
    /\ djPending' = Returns("UNDEFINED")
    /\ djPc' = "finally"
    /\ UNCHANGED <<djFile, djHandle, djCloses, djOp, djValue, djOutcome>>
    /\ UNCHANGED notDivide

\* else: op['result'] = value; handle.seek(0); handle.write(json.dumps(op));
\* return value.  The write may fail (IOError), and then leaves the file as
\* it was.
Else ==
    /\ djPc = "else"
    /\ djOp' = [k \in DOMAIN djOp \cup {"result"} |->
                  IF k = "result" THEN djValue ELSE djOp[k]]
    /\ \E written \in BOOLEAN :
           IF written
           THEN /\ djFile' = [djFile EXCEPT !.op = djOp']
                /\ djPending' = Returns("value")
           ELSE /\ djPending' = Raises("IOError")
                /\ UNCHANGED djFile
    /\ djPc' = "finally"
    /\ UNCHANGED <<djHandle, djCloses, djValue, djOutcome>>
    /\ UNCHANGED notDivide

\* A try statement without its finally clause, whose close comes after the
\* blocks: only a return reaches it, an exception passes it by.
FinallySkippedByException ==
    /\ djPc = "finally"
    /\ IF djPending.kind = "return"
       THEN djHandle' = "closed" /\ djCloses' = djCloses + 1
       ELSE UNCHANGED <<djHandle, djCloses>>
    /\ djOutcome' = djPending
    /\ djPc' = "done"
    /\ UNCHANGED <<djFile, djOp, djValue, djPending>>
    /\ UNCHANGED notDivide

\* finally: handle.close(), and then the pending return or exception leaves
\* divide_json.
Finally ==
    /\ djPc = "finally"
    /\ djHandle' = "closed"
    /\ djCloses' = djCloses + 1
    /\ djOutcome' = djPending
    /\ djPc' = "done"
    /\ UNCHANGED <<djFile, djOp, djValue, djPending>>
    /\ UNCHANGED notDivide

DivideNext == Open \/ Read \/ Loads \/ Divide \/ Except \/ Else \/ Finally

\* C3: in every terminal state of divide_json the handle it opened is closed
\* and close has run exactly once, whether divide_json returned the quotient,
\* returned UNDEFINED or let an exception through; close never runs twice.
C3_HandleClosedOnEveryExit ==
    /\ djCloses <= 1
    /\ djPc = "done" =>
           /\ djHandle # "open"
           /\ djHandle = "closed" => djCloses = 1
           /\ djHandle = "none" => (djCloses = 0 /\ ~djFile.exists)

\* An exception raised inside the try block has reached the caller, and the
\* handle is closed.
C3_Witness ==
    /\ djPc = "done"
    /\ djOutcome.kind = "raise"
    /\ djOutcome.what \in {"ValueError", "KeyError"}
    /\ djHandle = "closed"
    /\ djCloses = 1

(***************************************************************************)
(* v43_Consider_contextlib_and_with_Statements_for_Reusable_try_finally    *)
(***************************************************************************)

\* Bound: how deep debug_logging blocks nest.
MaxDepth == 3

\* The logging module's levels the notebook names.
DEBUG == 10
WARNING == 30
ERROR == 40

\* The levels handed to debug_logging: logging.NOTSET, DEBUG, INFO, WARNING
\* and ERROR.
Levels == {0, DEBUG, 20, WARNING, ERROR}

\* Logger.getEffectiveLevel() of the root logger: its own level when that is
\* set, and NOTSET (0) otherwise, as the root has no parent to ask.
GetEffectiveLevel(level) == IF level # 0 THEN level ELSE 0

\* Logger.isEnabledFor(severity)
IsEnabledFor(severity, level) == severity >= GetEffectiveLevel(level)

\* Example 3: my_function(), the lines it prints at a level.
MyFunctionOutput(level) ==
    (IF IsEnabledFor(DEBUG, level) THEN <<"DEBUG:root:Some debug data">> ELSE <<>>)
    \o (IF IsEnabledFor(ERROR, level) THEN <<"ERROR:root:Error log here">> ELSE <<>>)
    \o (IF IsEnabledFor(DEBUG, level) THEN <<"DEBUG:root:More debug data">> ELSE <<>>)

NoBlock == [how |-> "none", before |-> WARNING, after |-> WARNING,
            exc |-> "none"]

\* Example 3: logging.getLogger().setLevel(logging.WARNING)
LoggingInit ==
    /\ lgLevel = WARNING
    /\ lgStack = <<>>
    /\ lgExc = "none"
    /\ lgOut = <<>>
    /\ lgEnded = NoBlock

\* with debug_logging(level): the generator runs up to its yield.  A frame
\* holds the generator's locals and, as entered, the level that was in effect
\* when the with statement was reached.
Enter ==
    \E level \in Levels :
        /\ lgExc = "none"
        /\ Len(lgStack) < MaxDepth
        /\ lgStack' = Append(lgStack, [level |-> level,
                                       old_level |-> GetEffectiveLevel(lgLevel),
                                       entered |-> lgLevel])
        /\ lgLevel' = level
        /\ lgOut' = <<>>
        /\ UNCHANGED <<lgExc, lgEnded>>
        /\ UNCHANGED notLogging

\* my_function(), inside a block or outside of all.
MyFunction ==
    /\ lgExc = "none"
    /\ lgOut' = MyFunctionOutput(lgLevel)
    /\ UNCHANGED <<lgLevel, lgStack, lgExc, lgEnded>>
    /\ UNCHANGED notLogging

\* The body of the innermost block raises.
RaiseInBody ==
    /\ lgExc = "none"
    /\ lgStack # <<>>
    /\ lgExc' = "raised"
    /\ lgOut' = <<>>
    /\ UNCHANGED <<lgLevel, lgStack, lgEnded>>
    /\ UNCHANGED notLogging

\* The generator's finally clause: logger.setLevel(old_level), and the block
\* is left.  lgEnded keeps the level before and after the block and whether
\* an exception is on its way out of it.
LeaveBlock(how) ==
    LET frame == lgStack[Len(lgStack)] IN
    /\ lgLevel' = frame.old_level
    /\ lgStack' = SubSeq(lgStack, 1, Len(lgStack) - 1)
    /\ lgEnded' = [how |-> how, before |-> frame.entered, after |-> lgLevel',
                   exc |-> lgExc']
    /\ lgOut' = <<>>

\* The innermost block's body finishes: the generator resumes after yield.
ExitNormal ==
    /\ lgExc = "none"
    /\ lgStack # <<>>
    /\ UNCHANGED lgExc
    /\ LeaveBlock("normal")
    /\ UNCHANGED notLogging

\* A generator without try / finally around its yield: the exception thrown
\* in at yield ends it before it sets the level back.
ExitRaisedNoFinally ==
    /\ lgExc \in {"raised", "unwinding"}
    /\ lgStack # <<>>
    /\ lgStack' = SubSeq(lgStack, 1, Len(lgStack) - 1)
    /\ lgEnded' = [how |-> "raised", before |-> lgStack[Len(lgStack)].entered,
                   after |-> lgLevel, exc |-> "unwinding"]
    /\ lgOut' = <<>>
    /\ lgExc' = "unwinding"
    /\ UNCHANGED lgLevel
    /\ UNCHANGED notLogging

\* An exception leaves the innermost block: it is thrown into the generator
\* at yield, the finally clause runs, and the exception goes on to whatever
\* encloses the with statement.
ExitRaised ==
    /\ lgExc \in {"raised", "unwinding"}
    /\ lgStack # <<>>
    /\ lgExc' = "unwinding"
    /\ LeaveBlock("raised")
    /\ UNCHANGED notLogging

\* The code around the block that was just left catches the exception.
Catch ==
    /\ lgExc = "unwinding"
    /\ lgExc' = "none"
    /\ UNCHANGED <<lgLevel, lgStack, lgOut, lgEnded>>
    /\ UNCHANGED notLogging

LoggingNext ==
    Enter \/ MyFunction \/ RaiseInBody \/ ExitNormal \/ ExitRaised \/ Catch

\* Some line of the last my_function() call is a debug message.
DebugPrinted ==
    \E i \in 1..Len(lgOut) : lgOut[i] \in {"DEBUG:root:Some debug data",
                                            "DEBUG:root:More debug data"}

\* C4: when a debug_logging block has ended, normally or by an exception
\* (which is then still on its way to the caller), the root logger's level is
\* the level that was in effect just before the block was entered; nested
\* blocks restore innermost first, so that with no block active the level is
\* the program's own again; and debug messages are printed only while a block
\* that set the level to DEBUG (or below it) is active.
C4_LevelRestored ==
    /\ lgEnded.how # "none" => lgEnded.after = lgEnded.before
    /\ lgEnded.how = "raised" => lgEnded.exc = "unwinding"
    /\ lgEnded.how = "normal" => lgEnded.exc = "none"
    /\ lgStack = <<>> => lgLevel = WARNING
    /\ \A i \in 1..Len(lgStack) :
           lgStack[i].entered =
               (IF i = 1 THEN WARNING ELSE lgStack[i - 1].level)
    /\ DebugPrinted => \E i \in 1..Len(lgStack) : lgStack[i].level <= DEBUG

\* Two nested blocks were entered, the outer one at ERROR, an exception left
\* the inner one and is on its way, and the level is the outer block's.
C4_Witness ==
    /\ lgEnded.how = "raised"
    /\ lgExc = "unwinding"
    /\ Len(lgStack) = 1
    /\ lgStack[1].level = ERROR
    /\ lgEnded.before = ERROR
    /\ lgLevel = ERROR

(***************************************************************************)
(* v51_Define_a_Root_Exception_to_Insulate_Callers_from_APIs               *)
(***************************************************************************)

\* Bounds: the volumes 0..MaxVolume and densities -MaxDensity..MaxDensity.
MaxVolume == 2
MaxDensity == 2

WeightArgs == [volume : 0..MaxVolume, density : (0 - MaxDensity)..MaxDensity]

\* The exception classes my_module defines (Examples 2, 6 and 8).
ModuleClasses ==
    {"Error", "InvalidDensityError", "NegativeDensityError", "WeightError",
     "VolumeError", "DensityError"}

\* A hierarchy in which the new class was derived from Exception instead of
\* from the module's InvalidDensityError.
ParentNegativeOutsideHierarchy(c) ==
    CASE c \in {"InvalidDensityError", "WeightError", "VolumeError",
                "DensityError"} -> "Error"
      [] c \in {"Error", "NegativeDensityError", "ValueError",
                "AssertionError"} -> "Exception"
      [] c = "Exception" -> "BaseException"
      [] OTHER -> "object"

\* The base class of a class: the class statements of Examples 2, 6 and 8,
\* and Python's own ValueError, AssertionError, Exception, BaseException.
Parent(c) ==
    CASE c = "NegativeDensityError" -> "InvalidDensityError"
      [] c \in {"InvalidDensityError", "WeightError", "VolumeError",
                "DensityError"} -> "Error"
      [] c \in {"Error", "ValueError", "AssertionError"} -> "Exception"
      [] c = "Exception" -> "BaseException"
      [] OTHER -> "object"

\* issubclass(c, base): what an except clause asks of the raised exception.
RECURSIVE IsSubclass(_, _)
IsSubclass(c, base) ==
    IF c = base THEN TRUE
    ELSE IF c = "object" THEN FALSE
    ELSE IsSubclass(Parent(c), base)

\* The values of the caller's variable weight.
Unbound == [kind |-> "unbound", n |-> 0]
None == [kind |-> "None", n |-> 0]
IntValue(n) == [kind |-> "int", n |-> n]

\* Example 3: my_module.determine_weight.  It returns None when it does not
\* raise.
DetermineWeightEx3(volume, density) ==
    IF density <= 0 THEN "InvalidDensityError" ELSE "none"

\* Example 6: determine_weight, which Example 7 installs in my_module.
DetermineWeightEx6(volume, density) ==
    IF density < 0 THEN "NegativeDensityError" ELSE "none"

\* The except clauses of the callers, in order, each with what its block does.
Clauses(caller) ==
    CASE caller = "Example 3" ->
           <<[class |-> "Error", does |-> "log"]>>
      [] caller = "Example 4" ->
           <<[class |-> "InvalidDensityError", does |-> "weight = 0"],
             [class |-> "Error", does |-> "log"]>>
      [] caller = "Example 5" ->
           <<[class |-> "InvalidDensityError", does |-> "weight = 0"],
             [class |-> "Error", does |-> "log"],
             [class |-> "Exception", does |-> "log, raise"]>>
      [] caller = "Example 7" ->
           <<[class |-> "NegativeDensityError", does |-> "raise ValueError"],
             [class |-> "InvalidDensityError", does |-> "weight = 0"],
             [class |-> "Error", does |-> "log"],
             [class |-> "Exception", does |-> "log, raise"]>>

Callers == {"Example 3", "Example 4", "Example 5", "Example 7"}

\* weight as the caller finds it before its try statement: never assigned
\* before Example 3, 5 in Examples 4 and 5, and Example 5's 0 in Example 7.
WeightBefore(caller) ==
    CASE caller = "Example 3" -> Unbound
      [] caller \in {"Example 4", "Example 5"} -> IntValue(5)
      [] caller = "Example 7" -> IntValue(0)

\* The try block of every caller:
\*     weight = my_module.determine_weight(volume, density)
\*     assert False
\* raised is the exception determine_weight raised ("none" when it returned).
TryBlock(caller, raised) ==
    IF raised # "none"
    THEN [dw |-> raised, raised |-> raised, weight |-> WeightBefore(caller),
          handler |-> "none", propagates |-> "none", logged |-> FALSE]
    ELSE [dw |-> "none", raised |-> "AssertionError", weight |-> None,
          handler |-> "none", propagates |-> "none", logged |-> FALSE]

\* The index of the first except clause that takes the exception, 0 if none.
RECURSIVE FirstMatch(_, _, _)
FirstMatch(clauses, exc, i) ==
    IF i > Len(clauses) THEN 0
    ELSE IF IsSubclass(exc, clauses[i].class) THEN i
    ELSE FirstMatch(clauses, exc, i + 1)

\* The except clauses of a caller applied to what its try block left.
Handle(caller, run) ==
    LET i == FirstMatch(Clauses(caller), run.raised, 1) IN
    IF i = 0 THEN [run EXCEPT !.propagates = run.raised]
    ELSE LET clause == Clauses(caller)[i] IN
         CASE clause.does = "weight = 0" ->
                [run EXCEPT !.handler = clause.class, !.weight = IntValue(0)]
           [] clause.does = "log" ->
                [run EXCEPT !.handler = clause.class, !.logged = TRUE]
           [] clause.does = "log, raise" ->
                [run EXCEPT !.handler = clause.class, !.logged = TRUE,
                            !.propagates = run.raised]
           [] clause.does = "raise ValueError" ->
                [run EXCEPT !.handler = clause.class,
                            !.propagates = "ValueError"]

NotRun == [dw |-> "none", raised |-> "none", weight |-> Unbound,
           handler |-> "none", propagates |-> "none", logged |-> FALSE]

WeightIdle ==
    /\ wtCaller = "Example 3"
    /\ wtArgs = [volume |-> 0, density |-> 0]
    /\ wtPc = "try"
    /\ wtOld = NotRun
    /\ wtNew = NotRun

WeightInit ==
    /\ wtCaller \in Callers
    /\ wtArgs \in WeightArgs
    /\ wtPc = "try"
    /\ wtOld = NotRun
    /\ wtNew = NotRun

\* The try block runs, once against each my_module.  Example 7 names
\* my_module.NegativeDensityError, which only the extended module has.
Try ==
    /\ wtPc = "try"
    /\ wtOld' = IF wtCaller = "Example 7" THEN NotRun
                ELSE TryBlock(wtCaller,
                              DetermineWeightEx3(wtArgs.volume, wtArgs.density))
    /\ wtNew' = TryBlock(wtCaller,
                         DetermineWeightEx6(wtArgs.volume, wtArgs.density))
    /\ wtPc' = "except"
    /\ UNCHANGED <<wtCaller, wtArgs>>
    /\ UNCHANGED notWeight

\* The except clauses of the caller take the exception, or let it pass.
ExceptClauses ==
    /\ wtPc = "except"
    /\ wtOld' = IF wtCaller = "Example 7" THEN NotRun
                ELSE Handle(wtCaller, wtOld)
    /\ wtNew' = Handle(wtCaller, wtNew)
    /\ wtPc' = "done"
    /\ UNCHANGED <<wtCaller, wtArgs>>
    /\ UNCHANGED notWeight

WeightNext == Try \/ ExceptClauses

\* C5: Example 5's try statement takes the same handler and ends with the
\* same weight against the extended my_module as against the Example 3 one,
\* for every density.
C5_CallerUnchanged ==
    (wtPc = "done" /\ wtCaller = "Example 5") =>
        /\ wtNew.handler = wtOld.handler
        /\ wtNew.weight = wtOld.weight

\* C6: every class of my_module descends from Error; whatever determine_weight
\* raises, of either version, is a class of my_module, is taken by the single
\* clause except my_module.Error of Example 3 and goes no further; an
\* exception from outside the hierarchy (the AssertionError of the try block)
\* passes that clause.
C6_RootCatchesAll ==
    /\ \A c \in ModuleClasses : IsSubclass(c, "Error")
    /\ (wtPc = "done" /\ wtCaller = "Example 3") =>
           \A run \in {wtOld, wtNew} :
               /\ run.dw # "none" =>
                      /\ run.dw \in ModuleClasses
                      /\ run.handler = "Error"
                      /\ run.propagates = "none"
               /\ ~IsSubclass(run.raised, "Error") =>
                      /\ run.handler = "none"
                      /\ run.propagates = run.raised

\* Example 3's try statement has run with a negative density: the extended
\* module raised NegativeDensityError and except my_module.Error took it.
C6_Witness ==
    /\ wtPc = "done"
    /\ wtCaller = "Example 3"
    /\ wtArgs.density < 0
    /\ wtNew.dw = "NegativeDensityError"
    /\ wtNew.handler = "Error"
    /\ wtOld.dw = "InvalidDensityError"
    /\ wtOld.handler = "Error"

(***************************************************************************)
(* unnamed/part_002: make pickle reliable with copyreg                     *)
(***************************************************************************)

\* Bounds: how many levels the player beats, how many times 1000 points are
\* scored.
MaxLevel == 1
MaxScore == 1

\* The class objects the notebook creates, named after the example whose
\* class statement creates them.  Rebinding the name GameState creates a new
\* class object; instances and dispatch_table entries keep the old one.
ClassIds ==
    {"GameState@1", "GameState@5", "GameState@9", "GameState@14",
     "GameState@16", "BetterGameState@21"}

\* cls.__name__, the name pickle writes for an instance it has no reducer for.
ClassName(cid) ==
    IF cid = "BetterGameState@21" THEN "BetterGameState" ELSE "GameState"

\* The keyword parameters of cls.__init__.
Params(cid) ==
    CASE cid \in {"GameState@1", "GameState@5"} -> {}
      [] cid = "GameState@9" -> {"level", "lives", "points"}
      [] cid = "GameState@14" -> {"level", "lives", "points", "magic"}
      [] cid \in {"GameState@16", "BetterGameState@21"} ->
           {"level", "points", "magic"}

\* The attributes cls.__init__ assigns.
Attrs(cid) ==
    CASE cid = "GameState@1" -> {"level", "lives"}
      [] cid = "GameState@5" -> {"level", "lives", "points"}
      [] OTHER -> Params(cid)

\* The value __init__ gives an attribute no argument was passed for.
Default(attr) ==
    CASE attr = "level" -> 0
      [] attr = "lives" -> 4
      [] attr = "points" -> 0
      [] attr = "magic" -> 5

Ok(cid, dict) == [status |-> "ok", class |-> cid, dict |-> dict]
Failed(exc) == [status |-> exc, class |-> "none", dict |-> EmptyDict]
NotLoaded == [status |-> "none", class |-> "none", dict |-> EmptyDict]

\* cls(**kwargs)
Construct(cid, kwargs) ==
    IF ~(DOMAIN kwargs \subseteq Params(cid)) THEN Failed("TypeError")
    ELSE Ok(cid, [a \in Attrs(cid) |->
                     IF a \in DOMAIN kwargs THEN kwargs[a] ELSE Default(a)])

\* cls(), as state = GameState() makes it: the object, its class and __dict__.
Instance(cid) ==
    [class |-> cid, dict |-> Construct(cid, EmptyDict).dict]

\* The dict d after d.pop(k) for a key that is there.
Pop(d, k) == [a \in DOMAIN d \ {k} |-> d[a]]

\* The dict d after d[k] = v.
Put(d, k, v) == [a \in DOMAIN d \cup {k} |-> IF a = k THEN v ELSE d[a]]

NoData == [form |-> "none", name |-> "none", dict |-> EmptyDict]

\* What pickle writes for an object it has no reducer for: the import path of
\* its class and its __dict__.
ClassData(obj) ==
    [form |-> "class", name |-> ClassName(obj.class), dict |-> obj.dict]

\* What pickle writes for the (function, (kwargs,)) a reducer returned: the
\* import path of the function and its argument.
ReduceData(kwargs) ==
    [form |-> "reduce", name |-> "unpickle_game_state", dict |-> kwargs]

\* Example 10: pickle_game_state.  kwargs is the object's own __dict__.
PickleGameStateEx10(obj) == [obj |-> obj, data |-> ReduceData(obj.dict)]

\* Example 18: pickle_game_state.  kwargs['version'] = 2 is an assignment to
\* the object's own __dict__: the object has a version attribute afterwards.
PickleGameStateEx18(obj) ==
    LET kwargs == Put(obj.dict, "version", 2)
    IN  [obj |-> [obj EXCEPT !.dict = kwargs], data |-> ReduceData(kwargs)]

\* An unpickling function that builds the object as pickle does for a class
\* without a reducer: no constructor call, the dict taken as it is.
UnpickleWithoutConstructor(kwargs, names) ==
    IF names.GameState = "unbound" THEN Failed("NameError")
    ELSE Ok(names.GameState, kwargs)

\* Example 11: unpickle_game_state.  GameState is looked up when it is called.
UnpickleGameStateEx11(kwargs, names) ==
    IF names.GameState = "unbound" THEN Failed("NameError")
    ELSE Construct(names.GameState, kwargs)

\* An Example 19 that pops the version and passes on all the rest.
UnpickleKeepingLives(kwargs, names) ==
    UnpickleGameStateEx11(
        IF "version" \in DOMAIN kwargs THEN Pop(kwargs, "version") ELSE kwargs,
        names)

\* Example 19: unpickle_game_state.
UnpickleGameStateEx19(kwargs, names) ==
    LET version == IF "version" \in DOMAIN kwargs THEN kwargs["version"] ELSE 1
        popped == IF "version" \in DOMAIN kwargs THEN Pop(kwargs, "version")
                  ELSE kwargs
    IN  IF version = 1 /\ "lives" \notin DOMAIN popped THEN Failed("KeyError")
        ELSE IF names.GameState = "unbound" THEN Failed("NameError")
        ELSE Construct(names.GameState,
                       IF version = 1 THEN Pop(popped, "lives") ELSE popped)

\* pickle.dumps(obj): through the reducer registered for the object's class,
\* if there is one, and else by the class's name, which must then still name
\* that class.
PickleDumps(obj, names, table) ==
    IF obj.class \in DOMAIN table
    THEN IF names.unpickle_game_state = "unbound"
         THEN [status |-> "NameError", obj |-> obj, data |-> NoData]
         ELSE LET r == IF table[obj.class] = "Ex10"
                       THEN PickleGameStateEx10(obj)
                       ELSE PickleGameStateEx18(obj)
              IN  [status |-> "ok", obj |-> r.obj, data |-> r.data]
    ELSE IF names[ClassName(obj.class)] # obj.class
         THEN [status |-> "PicklingError", obj |-> obj, data |-> NoData]
         ELSE [status |-> "ok", obj |-> obj, data |-> ClassData(obj)]

\* pickle.loads(data): the name in the data is looked up now.  A class gets a
\* new instance whose __dict__ is the data's; a function is called.
PickleLoads(data, names) ==
    IF names[data.name] = "unbound" THEN Failed("AttributeError")
    ELSE IF data.form = "class" THEN Ok(names[data.name], data.dict)
    ELSE IF names.unpickle_game_state = "Ex11"
         THEN UnpickleGameStateEx11(data.dict, names)
         ELSE UnpickleGameStateEx19(data.dict, names)

\* Examples 1 and 2: class GameState; state = GameState()
PickleInit ==
    /\ pkCell = 0
    /\ pkNames = [GameState |-> "GameState@1", BetterGameState |-> "unbound",
                  pickle_game_state |-> "unbound",
                  unpickle_game_state |-> "unbound"]
    /\ pkTable = EmptyDict
    /\ pkState = Instance("GameState@1")
    /\ pkSerialized = NoData
    /\ pkAfter = NotLoaded

\* A cell that binds a global name.
Bind(cell, name, value) ==
    /\ pkCell = cell - 1
    /\ pkCell' = cell
    /\ pkNames' = [pkNames EXCEPT ![name] = value]
    /\ pkAfter' = NotLoaded
    /\ UNCHANGED <<pkTable, pkState, pkSerialized>>
    /\ UNCHANGED notPickle

\* A cell that calls copyreg.pickle(cls, pickle_game_state) for the class and
\* the function the names are bound to when it runs.
Register(cell, class) ==
    /\ pkCell = cell - 1
    /\ pkCell' = cell
    /\ pkTable' = Put(pkTable, pkNames[class], pkNames.pickle_game_state)
    /\ pkAfter' = NotLoaded
    /\ UNCHANGED <<pkNames, pkState, pkSerialized>>
    /\ UNCHANGED notPickle

Example5 == Bind(1, "GameState", "GameState@5")
Example9 == Bind(2, "GameState", "GameState@9")
Example10 == Bind(3, "pickle_game_state", "Ex10")
Example11 == Bind(4, "unpickle_game_state", "Ex11")
Example12 == Register(5, "GameState")
Example14 == Bind(6, "GameState", "GameState@14")
Example16 == Bind(7, "GameState", "GameState@16")
Example18 == Bind(8, "pickle_game_state", "Ex18")
Example19 == Bind(9, "unpickle_game_state", "Ex19")
Example20 == Register(10, "GameState")

\* Example 21: copyreg.dispatch_table.clear()
Example21Clear ==
    /\ pkCell = 10
    /\ pkCell' = 11
    /\ pkTable' = EmptyDict
    /\ pkAfter' = NotLoaded
    /\ UNCHANGED <<pkNames, pkState, pkSerialized>>
    /\ UNCHANGED notPickle

\* Example 21: del GameState; class BetterGameState
Example21Rename ==
    /\ pkCell = 11
    /\ pkCell' = 12
    /\ pkNames' = [pkNames EXCEPT !.GameState = "unbound",
                                  !.BetterGameState = "BetterGameState@21"]
    /\ pkAfter' = NotLoaded
    /\ UNCHANGED <<pkTable, pkState, pkSerialized>>
    /\ UNCHANGED notPickle

Example24 == Register(13, "BetterGameState")

\* state = GameState() or state = BetterGameState()
NewState ==
    \E name \in {"GameState", "BetterGameState"} :
        /\ pkNames[name] # "unbound"
        /\ pkState' = Instance(pkNames[name])
        /\ pkAfter' = NotLoaded
        /\ UNCHANGED <<pkCell, pkNames, pkTable, pkSerialized>>
        /\ UNCHANGED notPickle

\* Example 2: state.level += 1, and state.lives -= 1 where there are lives.
BeatLevel ==
    /\ pkState.dict["level"] < MaxLevel
    /\ pkState' = [pkState EXCEPT !.dict =
           [a \in DOMAIN @ |-> CASE a = "level" -> @[a] + 1
                                 [] a = "lives" -> @[a] - 1
                                 [] OTHER -> @[a]]]
    /\ pkAfter' = NotLoaded
    /\ UNCHANGED <<pkCell, pkNames, pkTable, pkSerialized>>
    /\ UNCHANGED notPickle

\* Example 13: state.points += 1000
Score ==
    /\ "points" \in DOMAIN pkState.dict
    /\ pkState.dict["points"] < 1000 * MaxScore
    /\ pkState' = [pkState EXCEPT !.dict["points"] = @ + 1000]
    /\ pkAfter' = NotLoaded
    /\ UNCHANGED <<pkCell, pkNames, pkTable, pkSerialized>>
    /\ UNCHANGED notPickle

\* serialized = pickle.dumps(state); when dumps raises, serialized is as it
\* was.
Dumps ==
    LET r == PickleDumps(pkState, pkNames, pkTable) IN
    /\ pkState' = r.obj
    /\ pkSerialized' = IF r.status = "ok" THEN r.data ELSE pkSerialized
    /\ pkAfter' = NotLoaded
    /\ UNCHANGED <<pkCell, pkNames, pkTable>>
    /\ UNCHANGED notPickle

\* state_after = pickle.loads(serialized)
LoadsSerialized ==
    /\ pkSerialized # NoData
    /\ pkAfter' = PickleLoads(pkSerialized, pkNames)
    /\ UNCHANGED <<pkCell, pkNames, pkTable, pkState, pkSerialized>>
    /\ UNCHANGED notPickle

PickleNext ==
    \/ Example5 \/ Example9 \/ Example10 \/ Example11 \/ Example12
    \/ Example14 \/ Example16 \/ Example18 \/ Example19 \/ Example20
    \/ Example21Clear \/ Example21Rename \/ Example24
    \/ NewState \/ BeatLevel \/ Score \/ Dumps \/ LoadsSerialized

\* pickle.loads has just run on data that names unpickle_game_state.
LoadedThroughUnpickle ==
    pkAfter.status # "none" /\ pkSerialized.form = "reduce"

\* The loaded object has exactly the attributes attrs, each with the value
\* the data holds for it, or with the constructor's default where the data
\* holds none.
LoadedWith(attrs) ==
    /\ pkAfter.status = "ok"
    /\ pkAfter.class = pkNames.GameState
    /\ DOMAIN pkAfter.dict = attrs
    /\ \A a \in attrs :
           pkAfter.dict[a] = IF a \in DOMAIN pkSerialized.dict
                             THEN pkSerialized.dict[a]
                             ELSE Default(a)

\* C7: with the Example 19 unpickle_game_state and the Example 16 GameState,
\* data without a version key is version 1 data and holds lives, any other
\* data carries version 2; loading either raises nothing and gives a
\* GameState with exactly level, points and magic, each as serialized or, if
\* the data has none, the constructor's default.
C7_VersionedUnpickle ==
    (/\ LoadedThroughUnpickle
     /\ pkNames.unpickle_game_state = "Ex19"
     /\ pkNames.GameState = "GameState@16") =>
        /\ "version" \notin DOMAIN pkSerialized.dict =>
               "lives" \in DOMAIN pkSerialized.dict
        /\ "version" \in DOMAIN pkSerialized.dict =>
               pkSerialized.dict["version"] = 2
        /\ LoadedWith({"level", "points", "magic"})

\* Example 20: data of the time of Example 13 (no version, lives, 1000
\* points) has been loaded and the object has magic 5 and the 1000 points.
C7_Witness ==
    /\ LoadedThroughUnpickle
    /\ pkNames.unpickle_game_state = "Ex19"
    /\ pkNames.GameState = "GameState@16"
    /\ DOMAIN pkSerialized.dict = {"level", "lives", "points"}
    /\ pkSerialized.dict["points"] = 1000
    /\ pkAfter.status = "ok"
    /\ pkAfter.dict["points"] = 1000
    /\ pkAfter.dict["magic"] = 5

\* C8: with the Examples 10 to 12 functions registered and GameState the
\* class of Example 9 or, a field added, of Example 14, loading data gives an
\* object with every attribute of the current constructor: as serialized
\* where the data has the attribute, the default (magic = 5) where not.
C8_DefaultsForNewFields ==
    (/\ LoadedThroughUnpickle
     /\ pkNames.unpickle_game_state = "Ex11"
     /\ pkNames.GameState \in {"GameState@9", "GameState@14"}) =>
        /\ DOMAIN pkSerialized.dict \subseteq Params(pkNames.GameState)
        /\ LoadedWith(Params(pkNames.GameState))

\* Example 15: data serialized before magic was added has been loaded by the
\* Example 14 class, and the object has magic 5.
C8_Witness ==
    /\ LoadedThroughUnpickle
    /\ pkNames.unpickle_game_state = "Ex11"
    /\ pkNames.GameState = "GameState@14"
    /\ "magic" \notin DOMAIN pkSerialized.dict
    /\ pkSerialized.dict["points"] = 1000
    /\ pkAfter.status = "ok"
    /\ pkAfter.dict["magic"] = 5
    /\ pkAfter.dict["points"] = 1000

\* C9: after Example 24, the data pickle.dumps gives for a BetterGameState
\* names the function unpickle_game_state, not the class, and loading it
\* succeeds and gives a BetterGameState with the attribute values of the
\* object that was serialized.
C9_RenamedClassLoads ==
    (/\ pkCell = 13
     /\ pkState.class = "BetterGameState@21"
     /\ pkSerialized = PickleDumps(pkState, pkNames, pkTable).data
     /\ pkAfter.status # "none") =>
        /\ pkSerialized.form = "reduce"
        /\ pkSerialized.name = "unpickle_game_state"
        /\ pkAfter.status = "ok"
        /\ pkAfter.class = "BetterGameState@21"
        /\ \A a \in {"level", "points", "magic"} :
               pkAfter.dict[a] = pkState.dict[a]

(***************************************************************************)
(* unnamed/part_001: use None and docstrings for dynamic default arguments *)
(***************************************************************************)

\* Bound: the number of decode calls.
MaxDecodes == 2

\* The strings handed to decode: two that are not JSON, and an empty JSON
\* object.
Texts == {"bad data", "also bad", "{}"}

\* json.loads(data) raises ValueError.
ParseFails(data) == data \in {"bad data", "also bad"}

\* The assignments foo['stuff'] = 5 and bar['meep'] = 1 of Examples 5 and 8.
Stores == {[key |-> "stuff", value |-> 5], [key |-> "meep", value |-> 1]}

\* A wrong decode whose default is made anew by every call that needs it.
DecodeFreshDefault(data, default, defaults, heap) ==
    IF ParseFails(data) /\ default # 0
    THEN [obj |-> default, heap |-> heap]
    ELSE [obj |-> Len(heap) + 1, heap |-> Append(heap, EmptyDict)]

\* Wrong Case: def decode(data, default={}).  default is the object id passed
\* by the caller, or 0 when the caller passes none and the function's
\* __defaults__ supply it.  json.loads makes a new dict; the default is
\* returned as the object it is.
DecodeWrong(data, default, defaults, heap) ==
    IF ParseFails(data)
    THEN [obj |-> IF default = 0 THEN defaults ELSE default, heap |-> heap]
    ELSE [obj |-> Len(heap) + 1, heap |-> Append(heap, EmptyDict)]

\* A decode whose body falls back to one dict kept for all calls (object 1)
\* instead of making a new one.
DecodeSolutionKeptDefault(data, default, defaults, heap) ==
    IF ParseFails(data)
    THEN [obj |-> IF default = 0 THEN 1 ELSE default, heap |-> heap]
    ELSE [obj |-> Len(heap) + 1, heap |-> Append(heap, EmptyDict)]

\* Solution: def decode(data, default=None), with default = {} in the body.
\* (The dict a call makes and does not return is not kept in the heap.)
DecodeSolution(data, default, defaults, heap) ==
    IF ParseFails(data) /\ default # 0
    THEN [obj |-> default, heap |-> heap]
    ELSE [obj |-> Len(heap) + 1, heap |-> Append(heap, EmptyDict)]

NoStore == [through |-> 0, key |-> "none", value |-> 0]

\* The first def decode has run: its default {} is object 1.
DecodeInit ==
    /\ dcVersion = "Wrong Case"
    /\ dcDefaults = 1
    /\ dcHeap = <<EmptyDict>>
    /\ dcResults = <<>>
    /\ dcLastStore = NoStore

\* The second def decode replaces the first; its default is None.
Redefine ==
    /\ dcVersion = "Wrong Case"
    /\ dcVersion' = "Solution"
    /\ dcDefaults' = 0
    /\ UNCHANGED <<dcHeap, dcResults, dcLastStore>>
    /\ UNCHANGED notDecode

\* decode(data) or decode(data, default), default being a dict the caller
\* already holds.
Decode ==
    \E data \in Texts, default \in 0..Len(dcHeap) :
        /\ Len(dcResults) < MaxDecodes
        /\ LET r == IF dcVersion = "Wrong Case"
                    THEN DecodeWrong(data, default, dcDefaults, dcHeap)
                    ELSE DecodeSolution(data, default, dcDefaults, dcHeap)
           IN  /\ dcHeap' = r.heap
               /\ dcResults' = Append(dcResults,
                      [obj |-> r.obj, version |-> dcVersion,
                       failed |-> ParseFails(data), omitted |-> default = 0])
        /\ UNCHANGED <<dcVersion, dcDefaults, dcLastStore>>
        /\ UNCHANGED notDecode

\* result[key] = value, through the result of some call.
Store ==
    \E i \in 1..Len(dcResults), st \in Stores :
        /\ dcHeap' = [dcHeap EXCEPT ![dcResults[i].obj] =
                          Put(@, st.key, st.value)]
        /\ dcLastStore' = [through |-> i, key |-> st.key, value |-> st.value]
        /\ UNCHANGED <<dcVersion, dcDefaults, dcResults>>
        /\ UNCHANGED notDecode

DecodeNext == Redefine \/ Decode \/ Store

\* The calls of the Wrong Case decode whose data did not parse and that
\* passed no default.
SharedCalls ==
    {i \in 1..Len(dcResults) :
        /\ dcResults[i].version = "Wrong Case"
        /\ dcResults[i].failed
        /\ dcResults[i].omitted}

\* C10: the default dict of decode(data, default={}) is the one object made
\* when the function was defined; every call whose data fails to parse and
\* that passes no default returns that object, so any two such results are
\* the same object and a key stored through one is read through each other.
C10_DefaultShared ==
    /\ \A i \in SharedCalls : dcResults[i].obj = 1
    /\ \A i, j \in SharedCalls : dcResults[i].obj = dcResults[j].obj
    /\ dcLastStore.through \in SharedCalls =>
           \A j \in SharedCalls :
               /\ dcLastStore.key \in DOMAIN dcHeap[dcResults[j].obj]
               /\ dcHeap[dcResults[j].obj][dcLastStore.key] = dcLastStore.value

\* Example 5: foo and bar come from two failing calls, stuff was stored
\* through foo and meep through bar, and bar holds both.
C10_Witness ==
    /\ {1, 2} \subseteq SharedCalls
    /\ dcLastStore.through = 2
    /\ dcLastStore.key = "meep"
    /\ DOMAIN dcHeap[dcResults[1].obj] = {"stuff", "meep"}
    /\ DOMAIN dcHeap[dcResults[2].obj] = {"stuff", "meep"}

\* The calls of the Solution decode whose data did not parse and that passed
\* no default.
FreshCalls ==
    {i \in 1..Len(dcResults) :
        /\ dcResults[i].version = "Solution"
        /\ dcResults[i].failed
        /\ dcResults[i].omitted}

\* A decode call has just returned: it is the last of dcResults'.
DecodeReturned == Len(dcResults') = Len(dcResults) + 1

\* A result[key] = value has just run.
StoreRan == dcResults' = dcResults /\ dcHeap' # dcHeap

\* C11: with decode(data, default=None), a call whose data fails to parse and
\* that passes no default returns a dict made by that call: it is empty when
\* returned, it is no object that existed before the call and so the result
\* of no earlier call, any two such results are distinct objects, and a store
\* through one such result leaves the result of every other such call, earlier
\* or later, as it was.
C11_DefaultFresh ==
    /\ [](\A i, j \in FreshCalls :
              i # j => dcResults[i].obj # dcResults[j].obj)
    /\ [][/\ (DecodeReturned /\ Len(dcResults') \in FreshCalls') =>
                LET n == Len(dcResults')
                IN  /\ dcHeap'[dcResults'[n].obj] = EmptyDict
                    /\ dcResults'[n].obj \notin 1..Len(dcHeap)
                    /\ \A j \in 1..(n - 1) :
                           dcResults'[j].obj # dcResults'[n].obj
           /\ (StoreRan /\ dcLastStore'.through \in FreshCalls) =>
                \A j \in FreshCalls \ {dcLastStore'.through} :
                    dcHeap'[dcResults[j].obj] = dcHeap[dcResults[j].obj]]_vars

\* Example 8: foo and bar come from two failing calls of the Solution decode,
\* stuff was stored through foo and meep through bar; foo holds only stuff and
\* bar only meep.
C11_Witness ==
    /\ FreshCalls = {1, 2}
    /\ dcLastStore.through = 2
    /\ dcLastStore.key = "meep"
    /\ DOMAIN dcHeap[dcResults[1].obj] = {"stuff"}
    /\ DOMAIN dcHeap[dcResults[2].obj] = {"meep"}

(***************************************************************************)
(* v37_Use_Threads_for_Blocking_IO_Avoid_for_Parallelism                   *)
(***************************************************************************)

\* Bound: the numbers to factorize are taken from 1..MaxNumber.
MaxNumber == 2

\* len(numbers): numbers = [2139079, 1214759, 1516637, 1852285].
NumNumbers == 4

Workers == 1..NumNumbers

\* The main thread.
MainThread == 0

\* The interpreter steps of list(factorize(number)): one per iteration of
\* for i in range(1, number + 1), and one in which the exhausted generator
\* ends the list.
FactorizeSteps(number) == number + 1

\* factorize's loop has run for every i and the list is complete.
Finished(k) == thI[k] = FactorizeSteps(thNumbers[k]) + 1

\* factorize is running for numbers[k].
Factorizing(k) == thI[k] >= 1 /\ ~Finished(k)

\* One step of list(factorize(number)) at loop index i: i is yielded, and so
\* appended, if it divides number.
FactorizeStep(number, i, factors) ==
    IF i <= number /\ number % i = 0 THEN Append(factors, i) ELSE factors

RECURSIVE SerialSteps(_)
\* The interpreter steps Example 2 takes between start and end: the
\* factorizations one after another.
SerialSteps(numbers) ==
    IF numbers = <<>>
    THEN 0
    ELSE FactorizeSteps(Head(numbers)) + SerialSteps(Tail(numbers))

\* The main thread can take a step: it is starting threads, or the thread it
\* joins has finished (thread.join() blocks until then).
MainRunnable ==
    \/ thMain.phase = "start"
    \/ thMain.phase = "join" /\ Finished(thMain.k)

\* The threads that have bytecode to execute.
Runnable ==
    (IF MainRunnable THEN {MainThread} ELSE {})
        \cup {k \in Workers : Factorizing(k)}

\* An interpreter in which every thread with work has a core of its own.
RunningOnAllCores(holder, runnable) == runnable

\* The global interpreter lock: of the threads that have work, only its
\* holder executes in a step.
Running(holder, runnable) == {holder}

\* The main thread after its next step of Examples 4 and 5.
MainAfter ==
    IF thMain.phase = "start"
    THEN IF thMain.k < NumNumbers
         THEN [phase |-> "start", k |-> thMain.k + 1]
         ELSE [phase |-> "join", k |-> 1]
    ELSE IF thMain.k < NumNumbers
         THEN [phase |-> "join", k |-> thMain.k + 1]
         ELSE [phase |-> "done", k |-> NumNumbers]

\* One interpreter step with holder holding the lock: every running thread
\* executes one step of its code.
InterpreterStep(holder) ==
    LET run == Running(holder, Runnable)
        started == IF MainThread \in run /\ thMain.phase = "start"
                   THEN {thMain.k} ELSE {}
    IN  /\ thMain' = IF MainThread \in run THEN MainAfter ELSE thMain
        /\ thI' = [k \in Workers |->
                      IF k \in run THEN thI[k] + 1
                      ELSE IF k \in started THEN 1 ELSE thI[k]]
        /\ thFactors' = [k \in Workers |->
                      IF k \in run
                      THEN FactorizeStep(thNumbers[k], thI[k], thFactors[k])
                      ELSE thFactors[k]]
        /\ thElapsed' = thElapsed + 1
        /\ thExecuting' = run
        /\ UNCHANGED <<thMode, thNumbers>>

\* No program of the notebook runs.
ThreadsIdle ==
    /\ thMode = "serial"
    /\ thNumbers = [k \in Workers |-> 1]
    /\ thMain = [phase |-> "loop", k |-> 1]
    /\ thI = [k \in Workers |-> 0]
    /\ thFactors = [k \in Workers |-> <<>>]
    /\ thElapsed = 0
    /\ thExecuting = {}

\* start = time() has run, in Example 2 or in Example 4.
ThreadsInit ==
    /\ thMode \in {"serial", "threads"}
    /\ thNumbers \in [Workers -> 1..MaxNumber]
    /\ thMain = [phase |-> IF thMode = "serial" THEN "loop" ELSE "start",
                 k |-> 1]
    /\ thI = [k \in Workers |-> IF thMode = "serial" /\ k = 1 THEN 1 ELSE 0]
    /\ thFactors = [k \in Workers |-> <<>>]
    /\ thElapsed = 0
    /\ thExecuting = {}

\* Example 2: the main thread takes one step of list(factorize(number)) and,
\* the list complete, goes on to the next number.
SerialFactorize ==
    /\ thMode = "serial"
    /\ thMain.phase = "loop"
    /\ LET k == thMain.k
           exhausted == thI[k] = FactorizeSteps(thNumbers[k])
       IN  /\ thFactors' = [thFactors EXCEPT ![k] =
                               FactorizeStep(thNumbers[k], thI[k], @)]
           /\ thI' = [j \in Workers |->
                         IF j = k THEN thI[k] + 1
                         ELSE IF exhausted /\ j = k + 1 THEN 1 ELSE thI[j]]
           /\ thMain' = IF ~exhausted THEN thMain
                        ELSE IF k < NumNumbers
                             THEN [phase |-> "loop", k |-> k + 1]
                             ELSE [phase |-> "done", k |-> k]
    /\ thElapsed' = thElapsed + 1
    /\ thExecuting' = {MainThread}
    /\ UNCHANGED <<thMode, thNumbers>>
    /\ UNCHANGED notThreads

\* Example 4: thread = FactorizeThread(number); thread.start();
\* threads.append(thread).
StartThread ==
    /\ thMode = "threads"
    /\ thMain.phase = "start"
    /\ InterpreterStep(MainThread)
    /\ UNCHANGED notThreads

\* FactorizeThread.run: a thread takes one step of
\* self.factors = list(factorize(self.number)).
Run ==
    \E k \in Workers :
        /\ thMode = "threads"
        /\ Factorizing(k)
        /\ InterpreterStep(k)
        /\ UNCHANGED notThreads

\* Example 5: thread.join() returns, the thread having finished.
Join ==
    /\ thMode = "threads"
    /\ thMain.phase = "join"
    /\ Finished(thMain.k)
    /\ InterpreterStep(MainThread)
    /\ UNCHANGED notThreads

ThreadsNext == SerialFactorize \/ StartThread \/ Run \/ Join

InitBucket == BucketInit /\ DivideIdle /\ LoggingInit /\ WeightIdle /\ PickleInit
    /\ DecodeInit /\ ThreadsIdle

SpecBucket == InitBucket /\ [][BucketNext]_vars

\* divide_json runs on one of the files.
InitDivide == DivideInit /\ BucketInit /\ LoggingInit /\ WeightIdle /\ PickleInit
    /\ DecodeInit /\ ThreadsIdle

SpecDivide == InitDivide /\ [][DivideNext]_vars

\* The logging notebook, after its Example 3.
InitLogging == LoggingInit /\ BucketInit /\ DivideIdle /\ WeightIdle /\ PickleInit
    /\ DecodeInit /\ ThreadsIdle

SpecLogging == InitLogging /\ [][LoggingNext]_vars

\* One of the callers of my_module.determine_weight runs.
InitWeight == WeightInit /\ BucketInit /\ DivideIdle /\ LoggingInit /\ PickleInit
    /\ DecodeInit /\ ThreadsIdle

SpecWeight == InitWeight /\ [][WeightNext]_vars

\* The pickle notebook, after its Examples 1 and 2.
InitPickle == PickleInit /\ BucketInit /\ DivideIdle /\ LoggingInit /\ WeightIdle
    /\ DecodeInit /\ ThreadsIdle

SpecPickle == InitPickle /\ [][PickleNext]_vars

\* The default-arguments notebook, after its first def decode.
InitDecode ==
    DecodeInit /\ BucketInit /\ DivideIdle /\ LoggingInit /\ WeightIdle
    /\ PickleInit /\ ThreadsIdle

SpecDecode == InitDecode /\ [][DecodeNext]_vars

\* The threads notebook, at start = time() of Example 2 or of Example 4.
InitThreads ==
    ThreadsInit /\ BucketInit /\ DivideIdle /\ LoggingInit /\ WeightIdle
    /\ PickleInit /\ DecodeInit

SpecThreads == InitThreads /\ [][ThreadsNext]_vars

====
